---- MODULE Spec2Model ----
(***************************************************************************)
(* Model of rusty_axe (src/main.rs): one run of `main`, i.e. get_events    *)
(* (the line-selection pass over the input file) followed by send_logs     *)
(* (instance-id lookup, create_log_stream, put_log_events).                *)
(*                                                                         *)
(* A file is a sequence of the items `BufReader::lines()` yields: each is  *)
(* Ok(text) or Err (a line that is not valid UTF-8).  Option<T> values are *)
(* sequences of length at most one: None is << >>, Some(x) is <<x>>.       *)
(***************************************************************************)
EXTENDS Integers, Sequences, FiniteSets, TLC

\* ---------------------------------------------------------------- bounds
MaxLines == 4          \* longest input file, in lines
MaxTime  == 2          \* distinct values of the run timestamp
WordBits == 4          \* width of usize in the model

UsizeMax == 2^WordBits - 1

Texts == {"", "a", "b"}
BadLine == [ok |-> FALSE, text |-> ""]
LineResults == [ok : {TRUE}, text : Texts] \cup {BadLine}

RECURSIVE SeqsUpTo(_, _)
SeqsUpTo(S, n) ==
    IF n = 0 THEN {<< >>}
    ELSE LET shorter == SeqsUpTo(S, n - 1)
         IN  shorter \cup {Append(s, x) : s \in {q \in shorter : Len(q) = n - 1}, x \in S}

Files == SeqsUpTo(LineResults, MaxLines)
ArgValues == (0 .. (MaxLines + 1)) \cup {UsizeMax}

None == << >>
Some(x) == <<x>>

VARIABLES
    file,          \* items of the input file, as `lines()` yields them
    openable,      \* whether File::open(path) succeeds
    head, tail,    \* Args.head, Args.tail
    pc,            \* position of the run
    timestamp,     \* get_events: the run timestamp (Option)
    count,         \* get_events: reader.lines().count()
    index,         \* get_events: enumerate() index of the next line
    events,        \* get_events: the vector under construction
    ret,           \* main: value returned by get_events (Option)
    arith,         \* "ok", or "overflow" once usize arithmetic overflowed
    instance_id,   \* send_logs: instance id used in the stream name
    calls,         \* remote calls issued so far, in order
    create_result, \* send_logs: outcome of create_log_stream, "none" before it
    put_result,    \* send_logs: outcome of put_log_events, "none" before it
    next_sequence, \* send_logs: token printed at the end
    rejected       \* send_logs: whether a rejection warning was printed

vars == <<file, openable, head, tail, pc, timestamp, count, index, events, ret,
          arith, instance_id, calls, create_result, put_result, next_sequence,
          rejected>>

\* ------------------------------------------------ get_events, pure parts

\* usize arithmetic as a release build computes it
UAdd(a, b) == (a + b) % (2^WordBits)
USub(a, b) == (a - b) % (2^WordBits)

\* InputLogEvent::builder().build()
EmptyEvent == [timestamp |-> None, message |-> None]

\* InputLogEvent::builder().timestamp(ts).message(&line).build()
NewEvent(ts, line) == [timestamp |-> Some(ts), message |-> Some(line)]

\* reader.lines().count(): every item counts, Ok or Err
LinesCount(f) == Len(f)

LineUnwrapSkips(item) == FALSE
\* line.unwrap() panics on an Err item
LineUnwrapPanics(item) == ~item.ok

BlankKept(line) == line
\* if line.is_empty() { line = String::from(" ") }
BlankFix(line) == IF line = "" THEN " " ELSE line

LogAllHeadOnly(h, t) == h = 0 /\ t # 0
\* head == 0 && tail == 0
LogAll(h, t) == h = 0 /\ t = 0

LogFirstInclusive(h, i) == h # 0 /\ i <= h
\* head != 0 && index < head
LogFirst(h, i) == h # 0 /\ i < h

TailPlusOneEager(t, n) == TRUE
\* `tail + 1` is evaluated only when `tail >= count` is false and
\* `tail != 0` is true (short-circuit || and &&)
TailPlusOneEvaluated(t, n) == ~(t >= n) /\ t # 0

\* the tail test overflows on `tail + 1` or underflows on `count - (tail + 1)`
LogLastOverflows(t, n) ==
    TailPlusOneEvaluated(t, n) /\ (t + 1 > UsizeMax \/ n - UAdd(t, 1) < 0)

LogLastOffByOne(t, n, i) == (t >= n) \/ (t # 0 /\ i >= USub(n, UAdd(t, 1)))
\* (tail >= count) || (tail != 0 && index > count - (tail + 1))
LogLast(t, n, i) == (t >= n) \/ (t # 0 /\ i > USub(n, UAdd(t, 1)))

\* match event.message { Some(_) => events.push(event), None => () }
PushEvent(evs, e) == IF e.message # None THEN Append(evs, e) ELSE evs

LineEventsPerBranch(evs, text, h, t, n, i, ts) ==
    LET line == BlankFix(text)
        a == IF LogAll(h, t) THEN Append(evs, NewEvent(ts, line)) ELSE evs
        b == IF LogFirst(h, i) THEN Append(a, NewEvent(ts, line)) ELSE a
    IN  IF LogLast(t, n, i) THEN Append(b, NewEvent(ts, line)) ELSE b
\* body of the selection loop for one line
LineEvents(evs, text, h, t, n, i, ts) ==
    LET line == BlankFix(text)
        e0 == EmptyEvent
        e1 == IF LogAll(h, t) THEN NewEvent(ts, line) ELSE e0
        e2 == IF LogFirst(h, i) THEN NewEvent(ts, line) ELSE e1
        e3 == IF LogLast(t, n, i) THEN NewEvent(ts, line) ELSE e2
    IN  PushEvent(evs, e3)

\* ------------------------------------------------- send_logs, pure parts

PlaceholderId == "i-00000000000000000"
RealId == "i-0123456789abcdef0"

ImdsOutcomes == {"ok", "err", "no_client"}
CreateOutcomes == {"ok", "already_exists", "other"}
PutOutcomes == {"ok", "err"}

\* match imds.get(...) { Ok(result) => instance_id = result, Err(e) => eprintln!(..) }
InstanceId(outcome) == IF outcome = "ok" THEN RealId ELSE PlaceholderId

CreateStreamNextLenient(outcome) == "put"
\* match on the create_log_stream result
CreateStreamNext(outcome) ==
    IF outcome \in {"ok", "already_exists"} THEN "put" ELSE "panic"

PutNextRetry(outcome) == IF outcome = "ok" THEN "exit_ok" ELSE "put"
\* put_log_events(...).send().await?
PutNext(outcome) == IF outcome = "ok" THEN "exit_ok" ELSE "exit_err"

\* ------------------------------------------------------------------ Init

Init ==
    /\ openable \in BOOLEAN
    /\ file \in (IF openable THEN Files ELSE {<< >>})
    /\ head \in ArgValues
    /\ tail \in ArgValues
    /\ pc = "get_events"
    /\ timestamp = None
    /\ count = 0
    /\ index = 0
    /\ events = << >>
    /\ ret = None
    /\ arith = "ok"
    /\ instance_id = PlaceholderId
    /\ calls = << >>
    /\ create_result = "none"
    /\ put_result = "none"
    /\ next_sequence = ""
    /\ rejected = FALSE

\* --------------------------------------------------------------- actions

\* get_events up to File::open(path).unwrap() when the open fails
OpenFails ==
    /\ pc = "get_events"
    /\ ~openable
    /\ \E ts \in 1 .. MaxTime : timestamp' = Some(ts)
    /\ pc' = "panic"
    /\ UNCHANGED <<file, openable, head, tail, count, index, events, ret, arith,
                   instance_id, calls, create_result, put_result,
                   next_sequence, rejected>>

\* get_events up to the start of the selection loop
OpenAndCount ==
    /\ pc = "get_events"
    /\ openable
    /\ \E ts \in 1 .. MaxTime : timestamp' = Some(ts)
    /\ count' = LinesCount(file)
    /\ index' = 0
    /\ events' = << >>
    /\ pc' = "loop"
    /\ UNCHANGED <<file, openable, head, tail, ret, arith,
                   instance_id, calls, create_result, put_result,
                   next_sequence, rejected>>

\* one iteration of `for (index, line) in reader.lines().enumerate()`
LoopStep ==
    /\ pc = "loop"
    /\ index < count
    /\ LET item == file[index + 1] IN
       IF LineUnwrapPanics(item)
       THEN /\ pc' = "panic"
            /\ UNCHANGED <<index, events, arith>>
       ELSE IF LogLastOverflows(tail, count)
       THEN \* a debug build panics, a release build wraps
            /\ arith' = "overflow"
            /\ \E debug \in BOOLEAN :
                 IF debug
                 THEN pc' = "panic" /\ UNCHANGED <<index, events>>
                 ELSE /\ events' = LineEvents(events, item.text, head, tail,
                                              count, index, timestamp[1])
                      /\ index' = index + 1
                      /\ pc' = "loop"
       ELSE /\ events' = LineEvents(events, item.text, head, tail,
                                    count, index, timestamp[1])
            /\ index' = index + 1
            /\ pc' = "loop"
            /\ UNCHANGED arith
    /\ UNCHANGED <<file, openable, head, tail, timestamp, count, ret,
                   instance_id, calls, create_result, put_result,
                   next_sequence, rejected>>

\* the loop ends, get_events returns Ok(events), main goes on to send_logs
GetEventsReturn ==
    /\ pc = "loop"
    /\ index = count
    /\ ret' = Some(events)
    /\ pc' = "send_logs"
    /\ UNCHANGED <<file, openable, head, tail, timestamp, count, index, events,
                   arith, instance_id, calls, create_result, put_result,
                   next_sequence, rejected>>

\* send_logs up to the stream name: IMDS client, instance-id lookup
ResolveInstance ==
    /\ pc = "send_logs"
    /\ \E outcome \in ImdsOutcomes :
         IF outcome = "no_client"
         THEN pc' = "panic" /\ UNCHANGED <<instance_id, calls>>
         ELSE /\ instance_id' = InstanceId(outcome)
              /\ calls' = Append(calls, [op |-> "imds_get"])
              /\ pc' = "create"
    /\ UNCHANGED <<file, openable, head, tail, timestamp, count, index, events,
                   ret, arith, create_result, put_result, next_sequence, rejected>>

\* cwlogs.create_log_stream()...send().await and the match on its result
CreateLogStream ==
    /\ pc = "create"
    /\ calls' = Append(calls, [op |-> "create_log_stream", stream |-> instance_id])
    /\ \E outcome \in CreateOutcomes :
         /\ create_result' = outcome
         /\ pc' = CreateStreamNext(outcome)
    /\ UNCHANGED <<file, openable, head, tail, timestamp, count, index, events,
                   ret, arith, instance_id, put_result, next_sequence, rejected>>

\* cwlogs.put_log_events()...send().await? and the handling of the response
PutLogEvents ==
    /\ pc = "put"
    /\ calls' = Append(calls, [op |-> "put_log_events", stream |-> instance_id,
                               events |-> ret[1]])
    /\ \E outcome \in PutOutcomes :
         /\ put_result' = outcome
         /\ pc' = PutNext(outcome)
         /\ IF outcome = "ok"
            THEN /\ next_sequence' \in {"", "token"}
                 /\ rejected' \in BOOLEAN
            ELSE UNCHANGED <<next_sequence, rejected>>
    /\ UNCHANGED <<file, openable, head, tail, timestamp, count, index, events,
                   ret, arith, instance_id, create_result>>

Next ==
    \/ OpenFails
    \/ OpenAndCount
    \/ LoopStep
    \/ GetEventsReturn
    \/ ResolveInstance
    \/ CreateLogStream
    \/ PutLogEvents

Spec == Init /\ [][Next]_vars

\* ------------------------------------------------- what the claims speak of

N == Len(file)
Returned == ret # None
Min(a, b) == IF a < b THEN a ELSE b

\* messages of the events get_events returned
Out == [k \in 1 .. Len(ret[1]) |-> ret[1][k].message[1]]

\* a file line as an event is to carry it
Carried(text) == IF text = "" THEN " " ELSE text
Expected == [k \in 1 .. N |-> Carried(file[k].text)]

\* the lines at the zero-based indices in S, in ascending index order
RECURSIVE LinesAt(_, _)
LinesAt(S, k) ==
    IF k > N THEN << >>
    ELSE (IF (k - 1) \in S THEN <<Expected[k]>> ELSE << >>) \o LinesAt(S, k + 1)

\* every line once per window (head window, tail window) it lies in
RECURSIVE OncePerWindow(_)
OncePerWindow(k) ==
    IF k > N THEN << >>
    ELSE (IF k - 1 < head THEN <<Expected[k]>> ELSE << >>)
         \o (IF k - 1 >= N - tail THEN <<Expected[k]>> ELSE << >>)
         \o OncePerWindow(k + 1)

\* zero-based indices the arguments select
Selected ==
    {i \in 0 .. (N - 1) : \/ head = 0 /\ tail = 0
                          \/ head # 0 /\ i < head
                          \/ tail # 0 /\ i >= N - tail}

PutCalls == {k \in 1 .. Len(calls) : calls[k].op = "put_log_events"}
CreateCalls == {k \in 1 .. Len(calls) : calls[k].op = "create_log_stream"}
InputFailure == ~openable \/ \E k \in 1 .. N : ~file[k].ok

\* C1: with head = h > 0 and tail = 0, get_events returns exactly the first
\* min(h, N) lines, in file order, empty lines carried as a single space.
C1_HeadOnly ==
    (Returned /\ head > 0 /\ tail = 0)
        => Out = SubSeq(Expected, 1, Min(head, N))

C1_Witness ==
    Returned /\ head = 2 /\ tail = 0 /\ N = 3 /\ Len(Out) = 2 /\ file[1].text = ""

\* C2: with tail = t > 0 and head = 0, get_events returns exactly the last
\* min(t, N) lines, in file order; t >= N yields all N lines.
C2_TailOnly ==
    (Returned /\ tail > 0 /\ head = 0)
        => Out = SubSeq(Expected, N - Min(tail, N) + 1, N)

C2_Witness ==
    Returned /\ tail = 2 /\ head = 0 /\ N = 3 /\ Len(Out) = 2 /\ file[3].text = "b"

\* C3: with head = h > 0 and tail = t > 0, get_events returns exactly the
\* lines of index i with i < h or i >= N - t, ascending, each exactly once.
C3_HeadAndTail ==
    (Returned /\ head > 0 /\ tail > 0)
        => Out = LinesAt({i \in 0 .. (N - 1) : i < head \/ i >= N - tail}, 1)

C3_Witness ==
    Returned /\ head = 1 /\ tail = 1 /\ N = 4 /\ Len(Out) = 2
             /\ file[1].text = "a" /\ file[4].text = "b"

\* C4: with head = 0 and tail = 0, get_events returns the N lines of the file
\* in order, empty lines as a single space; an empty file yields no events
\* whatever head and tail are.
C4_AllLines ==
    /\ (Returned /\ head = 0 /\ tail = 0) => Out = Expected
    /\ (Returned /\ N = 0) => Out = << >>

C4_Witness ==
    Returned /\ head = 0 /\ tail = 0 /\ N = 3 /\ Len(Out) = 3 /\ file[2].text = ""

\* C5 (as stated): when head and tail are both non-zero and head + tail > N,
\* the lines in the overlap appear twice in the output, once per window.
C5_OverlapTwice ==
    (Returned /\ head > 0 /\ tail > 0 /\ head + tail > N)
        => Out = OncePerWindow(1)

\* C5 (amended): when head and tail are both non-zero and head + tail > N,
\* every line of the file, those in the overlap included, appears exactly
\* once in the output, in ascending index order.
C5_OverlapOnce ==
    (Returned /\ head > 0 /\ tail > 0 /\ head + tail > N)
        => /\ Len(Out) = N
           /\ Out = Expected

C5_Witness ==
    Returned /\ head = 3 /\ tail = 3 /\ N = 4 /\ Len(Out) = 4

\* C6: every event get_events appends or returns has a message that is
\* present and non-empty; a selected empty line is emitted as a single space.
C6_NonEmptyMessages ==
    /\ \A k \in 1 .. Len(events) :
          events[k].message # None /\ events[k].message[1] # ""
    /\ Returned =>
          /\ \A k \in 1 .. Len(ret[1]) :
                ret[1][k].message # None /\ ret[1][k].message[1] # ""
          /\ Cardinality({k \in 1 .. Len(ret[1]) : ret[1][k].message = Some(" ")})
                = Cardinality({i \in Selected : file[i + 1].text = ""})

C6_Witness ==
    Returned /\ N = 3 /\ file[3].text = "" /\ file[3].ok /\ Selected = {2}
             /\ Len(Out) = 1 /\ Out[1] = " "

\* C7: when the file cannot be opened or a line cannot be read as text, the
\* run ends in a fatal failure of get_events: get_events returns no event
\* list and neither create_log_stream nor put_log_events is called.
C7_InputFailureFatal ==
    InputFailure =>
        /\ pc \in {"get_events", "loop", "panic"}
        /\ ret = None
        /\ calls = << >>

C7_Witness ==
    /\ pc = "panic" /\ openable /\ N = 3 /\ ~file[3].ok /\ file[1].ok
    /\ Len(events) = 2 /\ ret = None /\ calls = << >>

\* C8: a create_log_stream failure reporting that the stream already exists
\* is benign, and the run goes on to put_log_events with the selected events;
\* any other create_log_stream failure is fatal and put_log_events is never
\* called.
C8_CreateOutcome ==
    /\ create_result = "already_exists" =>
          /\ pc \in {"put", "exit_ok", "exit_err"}
          /\ pc # "put" => /\ PutCalls # {}
                           /\ \A k \in PutCalls : calls[k].events = ret[1]
    /\ create_result = "other" => (pc = "panic" /\ PutCalls = {})

C8_Witness ==
    /\ create_result = "already_exists" /\ pc = "exit_ok" /\ PutCalls # {}
    /\ Len(ret[1]) = 2

\* C9: line selection completes before any remote call, create_log_stream is
\* issued before put_log_events, each of the two is issued at most once, and
\* a failed put_log_events ends the run with a failure exit.
C9_SequentialNoRetry ==
    /\ calls # << >> => (Returned /\ pc \notin {"get_events", "loop", "send_logs"})
    /\ Cardinality(CreateCalls) <= 1
    /\ Cardinality(PutCalls) <= 1
    /\ \A p \in PutCalls : \E c \in CreateCalls : c < p
    /\ put_result = "err" => pc = "exit_err"

C9_Witness ==
    put_result = "err" /\ pc = "exit_err" /\ Len(calls) = 3 /\ N = 2

\* C10: the tail test never overflows on `tail + 1` nor underflows on
\* `count - (tail + 1)`, whatever head, tail and the line count are,
\* tail = usize::MAX and tail >= count included.
C10_NoOverflow ==
    /\ arith = "ok"
    /\ (pc = "loop" /\ index < count) => ~LogLastOverflows(tail, count)

C10_Witness ==
    Returned /\ tail = UsizeMax /\ N = 2 /\ Len(Out) = 2 /\ arith = "ok"

====
